---- MODULE Spec2Model ----
(***************************************************************************)
(* Model of backend/server.py of the trading journal: the TradeJournal     *)
(* schema, the three routes over the "trades" collection, the mapping      *)
(* between records and stored documents, and calculate_pnl.                *)
(*                                                                         *)
(* Values are tagged records so that a dict may hold a datetime, a string, *)
(* a number or None under the same key, as a Python dict does.  Strings    *)
(* are sequences of one-character strings, because the code formats,       *)
(* parses, upper-cases and (in the store) orders them character by         *)
(* character.  Floats are counted in thousandths (0.001), so that          *)
(* round(x, 2) is a real rounding; binary representation error of floats   *)
(* is not modelled.                                                        *)
(***************************************************************************)
EXTENDS Integers, Sequences, FiniteSets, TLC

VARIABLES trades, clock, issued, created, response, trade_data, pnl

vars == <<trades, clock, issued, created, response, trade_data, pnl>>

----------------------------------------------------------------------------
(* Bounds of the model.                                                    *)

MaxTrades == 2
MaxSecs == 1
MaxUs == 1
MaxLimit == 2
MaxPrice == 6
MaxQty == 2
MaxComm == 2

----------------------------------------------------------------------------
(* Python values.                                                          *)

None == [type |-> "None"]
Str(s) == [type |-> "str", s |-> s]
Num(n) == [type |-> "num", v |-> n]
Dt(secs, us, aware, off) ==
    [type |-> "datetime", secs |-> secs, us |-> us, aware |-> aware, off |-> off]

IsStr(v) == v.type = "str"
IsNum(v) == v.type = "num"
IsDatetime(v) == v.type = "datetime"

\* Python truthiness of a value: None, 0, "" and the empty dict are falsy.
Truthy(v) ==
    CASE "type" \notin DOMAIN v -> DOMAIN v # {}
      [] v.type = "None" -> FALSE
      [] v.type = "num" -> v.v # 0
      [] v.type = "str" -> v.s # <<>>
      [] OTHER -> TRUE

Min(a, b) == IF a <= b THEN a ELSE b
Abs(a) == IF a < 0 THEN -a ELSE a

Take(s, n) == SubSeq(s, 1, n)
Drop(s, n) == SubSeq(s, n + 1, Len(s))

----------------------------------------------------------------------------
(* Enumerations.                                                           *)

LONG == Str(<<"l", "o", "n", "g">>)
SHORT == Str(<<"s", "h", "o", "r", "t">>)
TradeDirection == {LONG, SHORT}

OPEN == Str(<<"o", "p", "e", "n">>)
CLOSED == Str(<<"c", "l", "o", "s", "e", "d">>)
TradeStatus == {OPEN, CLOSED}

----------------------------------------------------------------------------
(* datetime.isoformat and datetime.fromisoformat.  The model writes the    *)
(* fixed-width prefix YYYY-MM-DDTHH:MM:SS as a two-digit count of seconds  *)
(* and the six-digit microsecond field as two digits; the optional parts   *)
(* (fraction only when non-zero, offset only when aware) are as in Python. *)

Digits == <<"0", "1", "2", "3", "4", "5", "6", "7", "8", "9">>
IsDigit(c) == \E i \in 1..10 : Digits[i] = c
DigitVal(c) == (CHOOSE i \in 1..10 : Digits[i] = c) - 1
AllDigits(s) == \A i \in 1..Len(s) : IsDigit(s[i])
Num2(s) == DigitVal(s[1]) * 10 + DigitVal(s[2])
Fmt2(n) == <<Digits[(n \div 10) + 1], Digits[(n % 10) + 1]>>

FmtOffset(off) ==
    <<IF off < 0 THEN "-" ELSE "+">> \o Fmt2(Abs(off) \div 60) \o <<":">>
        \o Fmt2(Abs(off) % 60)

\* A variant of isoformat that writes whole seconds only.
isoformat_Seconds(d) ==
    Fmt2(d.secs) \o (IF d.aware THEN FmtOffset(d.off) ELSE <<>>)

isoformat(d) ==
    Fmt2(d.secs)
        \o (IF d.us # 0 THEN <<".">> \o Fmt2(d.us) ELSE <<>>)
        \o (IF d.aware THEN FmtOffset(d.off) ELSE <<>>)

ValueError == [type |-> "ValueError"]

\* The offset part: empty (naive) or sign HH ":" MM.
ParseOffset(z) ==
    IF z = <<>> THEN [ok |-> TRUE, aware |-> FALSE, off |-> 0]
    ELSE IF /\ Len(z) = 6
            /\ z[1] \in {"+", "-"}
            /\ AllDigits(SubSeq(z, 2, 3))
            /\ z[4] = ":"
            /\ AllDigits(SubSeq(z, 5, 6))
            /\ Num2(SubSeq(z, 2, 3)) < 24
            /\ Num2(SubSeq(z, 5, 6)) < 60
         THEN [ok |-> TRUE, aware |-> TRUE,
               off |-> (IF z[1] = "-" THEN -1 ELSE 1)
                        * (Num2(SubSeq(z, 2, 3)) * 60 + Num2(SubSeq(z, 5, 6)))]
         ELSE [ok |-> FALSE, aware |-> FALSE, off |-> 0]

fromisoformat(s) ==
    IF Len(s) < 2 \/ ~AllDigits(Take(s, 2)) THEN ValueError
    ELSE LET rest == Drop(s, 2)
             hasFrac == rest # <<>> /\ rest[1] = "."
             fracOk == hasFrac => (Len(rest) >= 3 /\ AllDigits(SubSeq(rest, 2, 3)))
             z == IF hasFrac THEN Drop(rest, 3) ELSE rest
             tz == ParseOffset(z)
         IN  IF ~fracOk THEN ValueError
             ELSE IF ~tz.ok THEN ValueError
             ELSE Dt(Num2(s), IF hasFrac THEN Num2(SubSeq(rest, 2, 3)) ELSE 0,
                     tz.aware, tz.off)

\* value.replace('Z', '+00:00')
RECURSIVE ReplaceZ(_)
ReplaceZ(s) ==
    IF s = <<>> THEN <<>>
    ELSE (IF s[1] = "Z" THEN <<"+", "0", "0", ":", "0", "0">> ELSE <<s[1]>>)
            \o ReplaceZ(Drop(s, 1))

----------------------------------------------------------------------------
(* The document store: db.trades is the sequence of its documents in       *)
(* insertion (natural) order.                                              *)

ObjectId(n) == [type |-> "ObjectId", n |-> n]

\* insert_one adds the generated _id to the document it is given.
insert_one(db, doc) == Append(db, doc @@ ("_id" :> ObjectId(Len(db) + 1)))

\* A query document matches when every key it names holds an equal value.
Matches(doc, query) ==
    \A k \in DOMAIN query : k \in DOMAIN doc /\ doc[k] = query[k]

find(db, query) == SelectSeq(db, LAMBDA doc : Matches(doc, query))

find_one(db, query) ==
    IF find(db, query) = <<>> THEN None ELSE Head(find(db, query))

\* The store orders strings by their bytes.
CharCode(c) ==
    CASE c = "+" -> 43 [] c = "-" -> 45 [] c = "." -> 46 [] c = ":" -> 58
      [] c = "Z" -> 90 [] c = "x" -> 120
      [] OTHER -> 48 + DigitVal(c)

RECURSIVE StrLeq(_, _)
StrLeq(a, b) ==
    IF a = <<>> THEN TRUE
    ELSE IF b = <<>> THEN FALSE
    ELSE IF a[1] # b[1] THEN CharCode(a[1]) < CharCode(b[1])
    ELSE StrLeq(Drop(a, 1), Drop(b, 1))

\* BSON comparison order of the values the model stores: null, numbers,
\* strings.
TypeRank(v) == CASE v.type = "None" -> 1 [] v.type = "num" -> 2 [] OTHER -> 3

BsonLeq(a, b) ==
    IF TypeRank(a) # TypeRank(b) THEN TypeRank(a) < TypeRank(b)
    ELSE IF IsStr(a) /\ IsStr(b) THEN StrLeq(a.s, b.s)
    ELSE IF IsNum(a) /\ IsNum(b) THEN a.v <= b.v
    ELSE TRUE

Orderings(n) == {p \in [1..n -> 1..n] : \A i, j \in 1..n : p[i] = p[j] => i = j}

\* A variant of sort_desc that orders the key ascending.
sort_asc(docs, key) ==
    {[i \in 1..Len(docs) |-> docs[p[i]]] : p \in
        {q \in Orderings(Len(docs)) :
            \A i \in 1..(Len(docs) - 1) :
                BsonLeq(docs[q[i]][key], docs[q[i + 1]][key])}}

\* cursor.sort(key, -1): every arrangement of the documents in which the key
\* never increases (the store promises no order among equal keys).
sort_desc(docs, key) ==
    {[i \in 1..Len(docs) |-> docs[p[i]]] : p \in
        {q \in Orderings(Len(docs)) :
            \A i \in 1..(Len(docs) - 1) :
                BsonLeq(docs[q[i + 1]][key], docs[q[i]][key])}}

\* cursor.limit(n): 0 means no limit.
cursor_limit(docs, n) == IF n = 0 THEN docs ELSE Take(docs, Min(Abs(n), Len(docs)))

\* cursor.to_list(length): at most length documents.
to_list(docs, length) == Take(docs, Min(length, Len(docs)))

----------------------------------------------------------------------------
(* Serialization helpers.                                                  *)

TimestampKeys == {"entry_time", "exit_time", "created_at", "updated_at"}

prepare_for_mongo(data) ==
    [key \in DOMAIN data |->
        IF IsDatetime(data[key]) THEN Str(isoformat(data[key])) ELSE data[key]]

parse_from_mongo(item) ==
    [key \in DOMAIN item |->
        IF IsStr(item[key]) /\ key \in TimestampKeys
        THEN LET parsed == fromisoformat(ReplaceZ(item[key].s))
             IN  IF parsed = ValueError THEN item[key] ELSE parsed
        ELSE item[key]]

----------------------------------------------------------------------------
(* The TradeJournal schema.  Fields that every operation copies unchanged  *)
(* (strategy, the emotion ratings, market_condition, the free-text fields, *)
(* stop_loss, target_price, risk_reward_ratio, tags) are left out; symbol, *)
(* direction, entry_price and quantity stand for them.                     *)

ValidationError == [type |-> "ValidationError"]

\* The validator of a datetime field given a string: the ISO form with the
\* offset written Z, +HH:MM, +HHMM or +HH.
ExpandOffset(z) ==
    IF z = <<"Z">> THEN <<"+", "0", "0", ":", "0", "0">>
    ELSE IF Len(z) = 3 THEN z \o <<":", "0", "0">>
    ELSE IF Len(z) = 5 THEN Take(z, 3) \o <<":">> \o Drop(z, 3)
    ELSE z

parse_datetime(v) ==
    IF IsDatetime(v) THEN v
    ELSE IF ~IsStr(v) THEN ValidationError
    ELSE LET s == v.s
             cut == IF Len(s) >= 5 /\ s[3] = "." THEN 5 ELSE 2
             d == IF Len(s) < cut THEN ValueError
                  ELSE fromisoformat(Take(s, cut) \o ExpandOffset(Drop(s, cut)))
         IN  IF d.type = "ValueError" THEN ValidationError ELSE d

Fields ==
    [id |-> "str", symbol |-> "str", direction |-> "direction",
     entry_price |-> "float", exit_price |-> "float", quantity |-> "int",
     entry_time |-> "datetime", exit_time |-> "datetime",
     profit_loss |-> "float", commission |-> "float", net_pnl |-> "float",
     status |-> "status", created_at |-> "datetime", updated_at |-> "datetime"]

OptionalFields == {"exit_price", "exit_time", "profit_loss", "commission", "net_pnl"}

Validate(kind, v) ==
    CASE kind = "str" -> IF IsStr(v) THEN v ELSE ValidationError
      [] kind = "direction" -> IF v \in TradeDirection THEN v ELSE ValidationError
      [] kind = "status" -> IF v \in TradeStatus THEN v ELSE ValidationError
      [] kind = "datetime" -> parse_datetime(v)
      [] OTHER -> IF IsNum(v) THEN v ELSE ValidationError

\* A variant of Defaults in which a new record starts closed at price 0.
Defaults_Closed(factory) ==
    [exit_price |-> Num(0), exit_time |-> None, profit_loss |-> None,
     commission |-> None, net_pnl |-> None, status |-> CLOSED,
     id |-> factory.id, created_at |-> factory.created_at,
     updated_at |-> factory.updated_at]

\* The defaults of the fields: None for the optional ones, open for status,
\* and what the default factories produced for id, created_at, updated_at.
Defaults(factory) ==
    [exit_price |-> None, exit_time |-> None, profit_loss |-> None,
     commission |-> None, net_pnl |-> None, status |-> OPEN,
     id |-> factory.id, created_at |-> factory.created_at,
     updated_at |-> factory.updated_at]

FieldValue(kw, factory, f) ==
    IF f \in DOMAIN kw
    THEN IF f \in OptionalFields /\ kw[f] = None THEN None
         ELSE Validate(Fields[f], kw[f])
    ELSE IF f \in DOMAIN Defaults(factory) THEN Defaults(factory)[f]
    ELSE ValidationError

\* TradeJournal(**kw): keys that are no field are ignored.
TradeJournal(kw, factory) ==
    LET values == [f \in DOMAIN Fields |-> FieldValue(kw, factory, f)]
    IN  IF \E f \in DOMAIN Fields : values[f] = ValidationError
        THEN ValidationError
        ELSE values

\* The factories are not consulted when the keywords give the three fields.
NoFactory == [id |-> None, created_at |-> None, updated_at |-> None]


----------------------------------------------------------------------------
(* Time and identifiers.                                                   *)

TimeLeq(a, b) == a[1] < b[1] \/ (a[1] = b[1] /\ a[2] <= b[2])

\* datetime.now(timezone.utc) at instant t.
now(t) == Dt(t[1], t[2], TRUE, 0)

\* Whether datetime a is not later than datetime b (same offset).
DtLeq(a, b) == TimeLeq(<<a.secs, a.us>>, <<b.secs, b.us>>)

\* The next instant of the clock, and the instants a read of the clock may
\* return when the previous read returned t: the model lets at most one
\* microsecond pass between two reads, and stops the clock at its bound.
Tick(t) ==
    IF t[2] < MaxUs THEN <<t[1], t[2] + 1>>
    ELSE IF t[1] < MaxSecs THEN <<t[1] + 1, 0>>
    ELSE t
Later(t) == {t, Tick(t)}

\* str(uuid.uuid4()): a value never produced before.  A collision of two
\* random 122-bit values is taken to be impossible, and which fresh value
\* is drawn does not matter: the model draws the first unused one.
UUID(i) == Str(<<"u", Digits[i + 1]>>)
UUIDs == {UUID(i) : i \in 1..(MaxTrades + 1)}
\* A variant of uuid4 that draws the same value every time.
uuid4_Repeat(used) == {UUID(1)}

uuid4(used) ==
    {UUID(CHOOSE i \in 1..(MaxTrades + 1) :
        /\ UUID(i) \notin used
        /\ \A j \in 1..(i - 1) : UUID(j) \in used)}

----------------------------------------------------------------------------
(* The routes.                                                             *)
(* Each route awaits the store once, so a request is one step.            *)

InternalServerError(e) == [code |-> 500, body |-> e]

\* POST /trades: the new store and the response.
create_trade(db, trade, factory) ==
    LET trade_dict == trade
        trade_obj == TradeJournal(trade_dict, factory)
        trade_data_ == prepare_for_mongo(trade_obj)
    IN  IF trade_obj = ValidationError
        THEN [db |-> db, response |-> InternalServerError(ValidationError)]
        ELSE [db |-> insert_one(db, trade_data_),
              response |-> [code |-> 200, body |-> trade_obj]]

\* The response of GET /trades over the documents the cursor yields.
RespondList(docs) ==
    LET out == [i \in 1..Len(docs) |-> TradeJournal(parse_from_mongo(docs[i]), NoFactory)]
    IN  IF \E i \in 1..Len(docs) : out[i] = ValidationError
        THEN InternalServerError(ValidationError)
        ELSE [code |-> 200, body |-> out]

\* GET /trades: the set of possible responses (the store may order equal
\* keys either way).  to_list rejects a negative length.
get_trades(db, limit, status) ==
    LET query == IF Truthy(status) THEN [status |-> status] ELSE <<>>
    IN  IF limit < 0 THEN {InternalServerError(ValueError)}
        ELSE {RespondList(to_list(cursor_limit(sorted, limit), limit)) :
                  sorted \in sort_desc(find(db, query), "created_at")}

\* A variant of get_trade without the check for a missing document: the
\* schema is then applied to None, which raises.
get_trade_NoCheck(db, trade_id) ==
    LET trade == find_one(db, [id |-> trade_id])
    IN  IF ~Truthy(trade) THEN InternalServerError([type |-> "TypeError"])
        ELSE [code |-> 200, body |-> TradeJournal(parse_from_mongo(trade), NoFactory)]

\* GET /trades/{trade_id}
get_trade(db, trade_id) ==
    LET trade == find_one(db, [id |-> trade_id])
        trade_obj == TradeJournal(parse_from_mongo(trade), NoFactory)
    IN  IF ~Truthy(trade)
        THEN [code |-> 404, body |-> [detail |-> "Trade not found"]]
        ELSE IF trade_obj = ValidationError
        THEN InternalServerError(ValidationError)
        ELSE [code |-> 200, body |-> trade_obj]

----------------------------------------------------------------------------
(* Requests.                                                               *)

NQ == Str(<<"N", "Q">>)

\* Entry times a client may send: naive or aware, with and without a
\* fraction of a second.
EntryTimes == {Dt(MaxSecs, 0, FALSE, 0), Dt(0, MaxUs, TRUE, 60)}

\* The bodies of POST /trades that pass validation.
TradeJournalCreate ==
    [symbol : {NQ}, direction : {LONG}, entry_price : {Num(MaxPrice)},
     quantity : {Num(1)}, entry_time : EntryTimes]

NoResponse == [op |-> "none"]

Init ==
    /\ trades = <<>>
    /\ clock = <<0, 0>>
    /\ issued = {}
    /\ created = <<>>
    /\ response = NoResponse
    /\ trade_data = None
    /\ pnl = None

\* A POST /trades request.  The two default factories read the clock one
\* after the other.
CreateTrade ==
    /\ Len(trades) < MaxTrades
    /\ \E trade \in TradeJournalCreate, id \in uuid4(issued) :
      \E t1 \in Later(clock) : \E t2 \in Later(t1) :
        /\ LET r == create_trade(trades, trade,
                        [id |-> id, created_at |-> now(t1), updated_at |-> now(t2)])
           IN  /\ trades' = r.db
               /\ response' = [op |-> "create_trade"] @@ r.response
               /\ created' = IF r.response.code = 200
                             THEN Append(created, r.response.body) ELSE created
        /\ clock' = t2
        /\ issued' = issued \cup {id}
    /\ UNCHANGED <<trade_data, pnl>>

\* A GET /trades request.
ListTrades ==
    /\ \E limit \in (-1)..MaxLimit, status \in {None} \cup TradeStatus :
        \E r \in get_trades(trades, limit, status) :
            response' = [op |-> "get_trades", limit |-> limit, status |-> status] @@ r
    /\ UNCHANGED <<trades, clock, issued, created, trade_data, pnl>>

\* A GET /trades/{trade_id} request.
GetTrade ==
    /\ \E trade_id \in UUIDs :
        response' = [op |-> "get_trade", trade_id |-> trade_id] @@ get_trade(trades, trade_id)
    /\ UNCHANGED <<trades, clock, issued, created, trade_data, pnl>>

Next == CreateTrade \/ ListTrades \/ GetTrade

Spec == Init /\ [][Next]_vars


----------------------------------------------------------------------------
(* calculate_pnl.  Amounts are in thousandths.                             *)

\* dict.get(key, default)
Get(d, key, default) == IF key \in DOMAIN d THEN d[key] ELSE default

\* round(x, 2): to the nearest hundredth, a tie to the even one.
round2(x) ==
    LET q == x \div 10
        r == x % 10
    IN  IF r < 5 THEN q * 10
        ELSE IF r > 5 THEN (q + 1) * 10
        ELSE IF q % 2 = 0 THEN q * 10
        ELSE (q + 1) * 10

UpperChar(c) ==
    CASE c = "n" -> "N" [] c = "q" -> "Q" [] c = "e" -> "E" [] c = "s" -> "S"
      [] c = "c" -> "C" [] c = "l" -> "L" [] OTHER -> c

upper(s) == [i \in 1..Len(s) |-> UpperChar(s[i])]

\* A variant of calculate_pnl that computes with exit price 0 when there is
\* none.
calculate_pnl_NoGuard(td) ==
    LET exit_price == IF Truthy(Get(td, "exit_price", None)) THEN td["exit_price"].v ELSE 0
        points == IF td["direction"] = LONG
                  THEN (exit_price - td["entry_price"].v) * td["quantity"].v
                  ELSE (td["entry_price"].v - exit_price) * td["quantity"].v
    IN  [profit_loss |-> Num(round2(points)), net_pnl |-> Num(round2(points))]

\* A variant of calculate_pnl that subtracts the commission from the rounded
\* profit.
calculate_pnl_RoundedFirst(td) ==
    IF ~Truthy(Get(td, "exit_price", None)) THEN None
    ELSE LET points == IF td["direction"] = LONG
                       THEN (td["exit_price"].v - td["entry_price"].v) * td["quantity"].v
                       ELSE (td["entry_price"].v - td["exit_price"].v) * td["quantity"].v
             symbol == upper(td["symbol"].s)
             profit_loss == IF symbol = <<"N", "Q">> THEN points * 20
                            ELSE IF symbol = <<"E", "S">> THEN points * 50
                            ELSE points
             commission == IF Truthy(Get(td, "commission", Num(0)))
                           THEN Get(td, "commission", Num(0)).v ELSE 0
         IN  [profit_loss |-> Num(round2(profit_loss)),
              net_pnl |-> Num(round2(round2(profit_loss) - commission))]

calculate_pnl(td) ==
    IF ~Truthy(Get(td, "exit_price", None)) THEN None
    ELSE LET entry_price == td["entry_price"].v
             exit_price == td["exit_price"].v
             quantity == td["quantity"].v
             direction == td["direction"]
             points == IF direction = LONG
                       THEN (exit_price - entry_price) * quantity
                       ELSE (entry_price - exit_price) * quantity
             symbol == upper(td["symbol"].s)
             profit_loss == IF symbol = <<"N", "Q">> THEN points * 20
                            ELSE IF symbol = <<"E", "S">> THEN points * 50
                            ELSE points
             commission == IF Truthy(Get(td, "commission", Num(0)))
                           THEN Get(td, "commission", Num(0)).v ELSE 0
             net_pnl == profit_loss - commission
         IN  [profit_loss |-> Num(round2(profit_loss)),
              net_pnl |-> Num(round2(net_pnl))]

\* The inputs: the spec's examples (entry 100, exit 110 or 90, commission 5)
\* and all small amounts.
Prices == (0..MaxPrice) \cup {90000, 100000, 110000}
Commissions == (0..MaxComm) \cup {5000}
Symbols == {NQ, Str(<<"n", "q">>), Str(<<"E", "S">>), Str(<<"e", "s">>),
            Str(<<"C", "L">>)}

RequiredInputs ==
    [entry_price : {Num(p) : p \in Prices}, quantity : {Num(q) : q \in 0..MaxQty},
     direction : TradeDirection, symbol : Symbols]

\* A key is missing, holds None, or holds a number.
OptionalKey(key, values) ==
    {<<>>, key :> None} \cup {key :> Num(v) : v \in values}

TradeDataInputs ==
    {r @@ e @@ c : r \in RequiredInputs, e \in OptionalKey("exit_price", Prices),
                   c \in OptionalKey("commission", Commissions)}

NotCalled == [type |-> "NotCalled"]

InitPnl ==
    /\ trade_data \in TradeDataInputs
    /\ pnl = NotCalled
    /\ trades = <<>>
    /\ clock = <<0, 0>>
    /\ issued = {}
    /\ created = <<>>
    /\ response = NoResponse

\* A call calculate_pnl(trade_data); the function assigns nothing to its
\* argument.
CalculatePnl ==
    /\ pnl = NotCalled
    /\ pnl' = calculate_pnl(trade_data)
    /\ UNCHANGED <<trade_data, trades, clock, issued, created, response>>

NextPnl == CalculatePnl

SpecPnl == InitPnl /\ [][NextPnl]_vars


----------------------------------------------------------------------------
(* The round trip of one TradeJournal through the store: the record is     *)
(* written as create_trade writes it (prepare_for_mongo of its dict, then  *)
(* insert_one) and read back by GET /trades/{trade_id}.                    *)

Offsets == {0, 60, -330}

\* Every datetime within the bounds: naive, UTC, east and west of UTC.
Datetimes ==
    {Dt(t, u, FALSE, 0) : t \in 0..MaxSecs, u \in 0..MaxUs}
        \cup {Dt(t, u, TRUE, o) : t \in 0..MaxSecs, u \in 0..MaxUs, o \in Offsets}

\* Records of a trade at any point of its life: open with no exit data, or
\* closed with exit data and derived amounts.
TradeJournals ==
    [id : {UUID(1)}, symbol : {NQ}, direction : {LONG},
     entry_price : {Num(MaxPrice)}, quantity : {Num(1)},
     entry_time : Datetimes,
     exit_price : {None}, exit_time : {None},
     profit_loss : {None}, commission : {None}, net_pnl : {None},
     status : {OPEN},
     created_at : {now(<<0, 0>>)}, updated_at : {now(<<0, MaxUs>>)}]
    \cup
    [id : {UUID(1)}, symbol : {NQ}, direction : {LONG},
     entry_price : {Num(MaxPrice)}, quantity : {Num(1)},
     entry_time : {Dt(0, 0, FALSE, 0)},
     exit_price : {Num(0)}, exit_time : Datetimes,
     profit_loss : {Num(-120)}, commission : {Num(MaxComm)}, net_pnl : {Num(-120)},
     status : {CLOSED},
     created_at : Datetimes, updated_at : {now(<<MaxSecs, 0>>)}]

InitRoundTrip ==
    /\ trades = <<>>
    /\ created \in {<<r>> : r \in TradeJournals}
    /\ clock = <<0, 0>>
    /\ issued = {}
    /\ response = NoResponse
    /\ trade_data = None
    /\ pnl = None

\* The record is persisted: lines 191 and 193 of create_trade.
Persist ==
    /\ trades = <<>>
    /\ trades' = insert_one(trades, prepare_for_mongo(created[1]))
    /\ UNCHANGED <<clock, issued, created, response, trade_data, pnl>>

\* The record is read back once it is stored.
ReadBack == trades # <<>> /\ GetTrade

NextRoundTrip == Persist \/ ReadBack

SpecRoundTrip == InitRoundTrip /\ [][NextRoundTrip]_vars

----------------------------------------------------------------------------
(* Reads of a store that holds a document written by another writer: its   *)
(* timestamp fields hold strings of any form.                              *)

StoredStrings ==
    {isoformat(now(<<0, MaxUs>>)),
     <<"0", "1", "Z">>,
     <<"0", "1", "+", "0", "1", "0", "0">>,
     <<"0", "1", ".", "x">>,
     <<"x">>}

StoredDocuments ==
    {[prepare_for_mongo(r) EXCEPT !["entry_time"] = Str(e), !["created_at"] = Str(c),
                                  !["updated_at"] = Str(u)]
        @@ ("_id" :> ObjectId(1)) :
        r \in {x \in TradeJournals : x.status = OPEN /\ x.entry_time = Dt(0, 0, FALSE, 0)},
        e \in StoredStrings, c \in StoredStrings, u \in StoredStrings}

InitStored ==
    /\ trades \in {<<d>> : d \in StoredDocuments}
    /\ created = <<>>
    /\ clock = <<0, 0>>
    /\ issued = {}
    /\ response = NoResponse
    /\ trade_data = None
    /\ pnl = None

NextStored == GetTrade \/ ListTrades

SpecStored == InitStored /\ [][NextStored]_vars


----------------------------------------------------------------------------
(* Properties of the routes (specification Spec).  created[i] is the       *)
(* record the i-th POST /trades returned; no route removes a document, so  *)
(* trades[i] is the document stored for it.                                *)

\* C1: every record createTrade returned has an identifier different from
\* that of every other created record, and a getTrade with that identifier
\* succeeds and returns a record equal to it in every field.
C1_UniqueStableId ==
    /\ \A i, j \in 1..Len(created) : i # j => created[i].id # created[j].id
    /\ \A i \in 1..Len(created) :
        (response.op = "get_trade" /\ response.trade_id = created[i].id)
            => (response.code = 200 /\ response.body = created[i])

\* Two records were created and the second, whose timestamps have a
\* fraction of a second, was fetched.
C1_Witness ==
    /\ Len(created) = 2
    /\ response.op = "get_trade"
    /\ response.trade_id = created[2].id
    /\ response.code = 200
    /\ response.body.created_at.us # 0
    /\ response.body.entry_time.us # 0

\* The stored records a status filter selects (all when there is none).
Selected(status) ==
    {i \in 1..Len(created) : status = None \/ created[i].status = status}

C3_UnknownIdNotFound ==
    /\ [](  (/\ response.op = "get_trade"
             /\ \A i \in 1..Len(trades) : trades[i]["id"] # response.trade_id)
            => (/\ response.code = 404
                /\ response.body = [detail |-> "Trade not found"]))
    /\ [][(/\ response'.op = "get_trade"
            /\ \A i \in 1..Len(trades) : trades[i]["id"] # response'.trade_id)
           => trades' = trades]_vars

\* A non-empty store was asked for an identifier it does not hold.
C3_Witness ==
    /\ Len(trades) >= 1
    /\ response.op = "get_trade"
    /\ response.code = 404

\* C9: every stored document has exit_price set only if profit_loss and
\* net_pnl are set; createTrade stores each record open, with exit_price,
\* exit_time, profit_loss, commission and net_pnl unset.
C9_CreatedOpenNoExit ==
    \A i \in 1..Len(trades) :
        /\ trades[i]["exit_price"] # None =>
            (trades[i]["profit_loss"] # None /\ trades[i]["net_pnl"] # None)
        /\ trades[i]["status"] = OPEN
        /\ \A f \in OptionalFields : trades[i][f] = None

\* Two trades were created.
C9_Witness ==
    /\ Len(trades) = 2
    /\ response.op = "create_trade"
    /\ response.code = 200

----------------------------------------------------------------------------
(* Properties of calculate_pnl (specification SpecPnl).                    *)

Called == pnl # NotCalled

\* exit_price is present: the key is there and holds a number.
ExitPresent == "exit_price" \in DOMAIN trade_data /\ trade_data["exit_price"] # None

\* The spec's constants: the point value of a symbol, read without regard to
\* letter case for both NQ and ES.
SpecPointValue(symbol) ==
    IF symbol \in {Str(<<"N", "Q">>), Str(<<"n", "q">>)} THEN 20
    ELSE IF symbol \in {Str(<<"E", "S">>), Str(<<"e", "s">>)} THEN 50
    ELSE 1

\* raw_diff * quantity * point_value, not rounded.
SpecRawProfit ==
    (IF trade_data["direction"] = LONG
     THEN trade_data["exit_price"].v - trade_data["entry_price"].v
     ELSE trade_data["entry_price"].v - trade_data["exit_price"].v)
        * trade_data["quantity"].v * SpecPointValue(trade_data["symbol"])

\* The commission, 0 when absent or unset.
SpecCommission ==
    IF "commission" \in DOMAIN trade_data /\ trade_data["commission"] # None
    THEN trade_data["commission"].v ELSE 0

\* C4: for every input with exit_price present, calculate_pnl returns
\* profit_loss = round(raw_diff * quantity * point_value, 2).
C4_ProfitLoss ==
    (Called /\ ExitPresent) =>
        (pnl # None /\ pnl.profit_loss = Num(round2(SpecRawProfit)))

C6_NoExitNoValues ==
    /\ []((Called /\ ~ExitPresent) => pnl = None)
    /\ [][trade_data' = trade_data]_vars

\* The function was called without an exit price on an input that has a
\* commission and a quantity.
C6_Witness ==
    /\ Called /\ ~ExitPresent
    /\ pnl = None
    /\ SpecCommission > 0
    /\ trade_data["quantity"].v > 0

\* C10: for every input with exit_price present as a number, 0 included,
\* calculate_pnl returns both profit_loss and net_pnl; it returns no values
\* only when exit_price is absent or unset.
C10_TotalOnExitPrice ==
    Called =>
        /\ ExitPresent => (pnl # None /\ DOMAIN pnl = {"profit_loss", "net_pnl"})
        /\ pnl = None => ~ExitPresent

----------------------------------------------------------------------------
(* Properties of the mapping to and from stored documents.                 *)

\* C7 (specification SpecRoundTrip): a TradeJournal written to the store
\* and read back equals the original in every field, timestamps included.
C7_RoundTrip ==
    (response.op = "get_trade" /\ response.trade_id = created[1].id) =>
        (response.code = 200 /\ response.body = created[1])

\* A closed trade whose exit time has a fraction of a second and an offset
\* west of UTC, and whose creation time is naive, was read back.
C7_Witness ==
    /\ response.op = "get_trade"
    /\ response.code = 200
    /\ created[1].exit_time # None
    /\ response.body.exit_time.us # 0
    /\ response.body.exit_time.off < 0
    /\ ~response.body.created_at.aware

\* A string that neither parse_from_mongo nor the schema reads as a
\* timestamp.
Unparseable(v) ==
    /\ IsStr(v)
    /\ fromisoformat(ReplaceZ(v.s)) = ValueError
    /\ parse_datetime(v) = ValidationError

\* The record a read returned for the stored document.
Returned == IF response.op = "get_trade" THEN response.body ELSE response.body[1]

\* C8 (specification SpecStored): when a timestamp field of the stored
\* document holds a string that cannot be parsed, a getTrade or listTrades
\* that touches the document does not fail, and the other fields of the
\* document are returned.
C8_LenientRead ==
    (/\ \E k \in TimestampKeys : Unparseable(trades[1][k])
     /\ \/ response.op = "get_trade" /\ response.trade_id = trades[1]["id"]
        \/ /\ response.op = "get_trades"
           /\ response.limit >= 1
           /\ response.status \in {None, trades[1]["status"]})
    => (/\ response.code = 200
        /\ \A f \in DOMAIN Fields \ TimestampKeys : Returned[f] = trades[1][f])


====
